---------------------------- MODULE Spec2Model ----------------------------
(***************************************************************************)
(* fovis_ros StereoOdometer (src/fovis_ros/src/stereo_odometer.cpp).       *)
(*                                                                         *)
(* One image-pair event is one run of StereoOdometer::imageCallback; the   *)
(* node is single threaded (ros::spin), so the whole callback is one       *)
(* atomic step.  The fovis engine, image_geometry, tf and the ROS message  *)
(* types are external: the engine's answers are inputs of the step, the    *)
(* library operations the callback uses are modelled by what they compute. *)
(*                                                                         *)
(* Numbers.  Lengths are integers; a ros::Time is a count of ticks of a     *)
(* tenth of a second.  A double that is the result of a division is a pair *)
(* <<n, d>>: the reduced fraction n/d with d > 0, or <<1,0>> = +inf,       *)
(* <<-1,0>> = -inf, <<0,0>> = NaN (the rounding of a double, 2^-53, is     *)
(* not modelled; the rounding of a float, 2^-24, is).  Rotations           *)
(* are quarter turns about the z axis (0..3); angles are counted in        *)
(* quarter turns; a quaternion component is counted in units of sqrt(1/2)  *)
(* on a scale where 2 stands for 1 (so (z,w) = (1,1) is a 90 degree yaw).  *)
(***************************************************************************)
EXTENDS Integers, Sequences, FiniteSets, TLC

\* Largest image timestamp (ticks) delivered in a model run.
MaxTime == 3
\* Largest reading of the ROS clock (ticks) in a model run.
MaxNow == 24
\* The period of ROS_WARN_THROTTLE (line 171), in ticks of the ROS clock.
ThrottlePeriod == 10
\* A null pointer, an absent record
NULL == [null |-> TRUE]
\* An absent number is <<>>, a present one <<n>>
None == <<>>
Some(n) == <<n>>

----------------------------------------------------------------------------
(* Arithmetic of doubles that come out of a division *)

Abs(n) == IF n < 0 THEN -n ELSE n

Sign(n) == IF n > 0 THEN 1 ELSE IF n < 0 THEN -1 ELSE 0

RECURSIVE Gcd(_, _)
Gcd(a, b) == IF b = 0 THEN a ELSE Gcd(b, a % b)

\* a / b in double arithmetic (exact where finite; x/0 = +-inf, 0/0 = NaN)
Div(a, b) ==
    IF b = 0 THEN <<Sign(a), 0>>
    ELSE LET g == Gcd(Abs(a), Abs(b))
             s == Sign(b)
         IN  <<(s * a) \div g, (s * b) \div g>>

Neg(q) == <<-q[1], q[2]>>

IsFinite(q) == q[2] # 0

IsPositive(q) == q[1] > 0

Zero == <<0, 1>>

\* The ticks of a ros::Time in a second.
TicksPerSec == 10

\* The least k with n * 2^k >= d * 2^23, for 0 < n/d < 2^23
RECURSIVE Exponent(_, _, _)
Exponent(n, d, k) == IF n * 2^k >= d * 2^23 THEN k ELSE Exponent(n, d, k + 1)

\* The nearest integer to n / d, ties to even, for n >= 0 and d > 0
RoundHalfEven(n, d) ==
    LET q == n \div d
        r == n % d
    IN  IF 2 * r > d \/ (2 * r = d /\ q % 2 = 1) THEN q + 1 ELSE q

\* The conversion of the double n / d to float (IEEE binary32, 24 bits of
\* mantissa, round to nearest even), for |n/d| < 2^23 and d > 0
ToFloat(n, d) ==
    IF n = 0 THEN Zero
    ELSE LET k == Exponent(Abs(n), d, 0)
             m == RoundHalfEven(Abs(n) * 2^k, d)
         IN  Div(Sign(n) * m, 2^k)

\* The double x divided by the float q
Quot(x, q) == Div(x * q[2], q[1])

----------------------------------------------------------------------------
(* Rigid transforms: a rotation (quarter turns about z) and an origin *)

Vec(x, y, z) == [x |-> x, y |-> y, z |-> z]

RotVec(r, v) ==
    CASE r = 0 -> v
      [] r = 1 -> Vec(-v.y, v.x, v.z)
      [] r = 2 -> Vec(-v.x, -v.y, v.z)
      [] r = 3 -> Vec(v.y, -v.x, v.z)

Transform(r, v) == [rot |-> r, origin |-> v]

Identity == Transform(0, Vec(0, 0, 0))

\* tf::Transform::operator*
Mul(a, b) ==
    LET v == RotVec(a.rot, b.origin)
    IN  Transform((a.rot + b.rot) % 4,
                  Vec(v.x + a.origin.x, v.y + a.origin.y, v.z + a.origin.z))

\* tf::Transform::inverse
Inverse(a) ==
    LET r == (4 - a.rot) % 4
        v == RotVec(r, a.origin)
    IN  Transform(r, Vec(-v.x, -v.y, -v.z))

\* Eigen::Quaterniond(rotation matrix): the quaternion with w >= 0
Quaterniond(rot) ==
    CASE rot = 0 -> [x |-> 0, y |-> 0, z |-> 0, w |-> 2]
      [] rot = 1 -> [x |-> 0, y |-> 0, z |-> 1, w |-> 1]
      [] rot = 2 -> [x |-> 0, y |-> 0, z |-> 2, w |-> 0]
      [] rot = 3 -> [x |-> 0, y |-> 0, z |-> -1, w |-> 1]

\* tf::Transform(tf::Quaternion, origin): the rotation matrix of a quaternion
\* (q and -q give the same matrix)
BasisOfQuaternion(q) ==
    CASE q.w = 0 -> 2
      [] q.z = 0 -> 0
      [] q.z = q.w -> 1
      [] OTHER -> 3

\* Eigen::AngleAxisd(rotation matrix): angle in [0, pi], axis of unit length
AngleAxisd(rot) ==
    CASE rot = 0 -> [axis |-> Vec(1, 0, 0), angle |-> 0]
      [] rot = 1 -> [axis |-> Vec(0, 0, 1), angle |-> 1]
      [] rot = 2 -> [axis |-> Vec(0, 0, 1), angle |-> 2]
      [] rot = 3 -> [axis |-> Vec(0, 0, -1), angle |-> 1]


----------------------------------------------------------------------------
(* Configuration (constructor, lines 44-58): the parameter defaults *)

odom_frame_id_ == "/odom"
base_link_frame_id_ == "/base_link"
sensor_frame_id_ == "/camera"

\* fovis::VisualOdometry::getDefaultOptions()
visual_odometer_options_ == "DefaultOptions"

----------------------------------------------------------------------------
(* Inputs of an image-pair event *)

\* sensor_msgs::CameraInfo: the fields the callback reads (P(0,0), P(1,1),
\* P(0,2), P(1,2), P(0,3), width, height)
CameraInfo(w, h, fx, fy, cx, cy, Tx) ==
    [width |-> w, height |-> h, fx |-> fx, fy |-> fy, cx |-> cx, cy |-> cy,
     Tx |-> Tx]

\* A calibrated pair, baseline 4/2 = 2; the cameras are verged (cx differs).
InfoA == [l |-> CameraInfo(6, 4, 2, 2, 3, 2, 0),
          r |-> CameraInfo(6, 4, 2, 2, 4, 2, -4)]
\* Another calibration, baseline 1/3; the right image is cropped.
InfoB == [l |-> CameraInfo(8, 6, 3, 3, 4, 3, 0),
          r |-> CameraInfo(7, 5, 3, 3, 5, 3, -1)]
\* Records with zero image dimensions.
InfoZeroDim == [l |-> CameraInfo(0, 0, 2, 2, 3, 2, 0),
                r |-> CameraInfo(0, 0, 2, 2, 3, 2, -4)]
\* Uncalibrated records (P all zero but Tx): the baseline is -Tx/0.
InfoNoFocal == [l |-> CameraInfo(6, 4, 0, 0, 0, 0, 0),
                r |-> CameraInfo(6, 4, 0, 0, 0, 0, -4)]

InfoSet == {InfoA, InfoB, InfoZeroDim, InfoNoFocal}

\* The calibration delivered in the runs that vary everything else.
Calibrated == {InfoA}

\* sensor_msgs::Image after cv_bridge::toCvShare(MONO8): size and row stride
Image(w, h, step) == [width |-> w, height |-> h, step |-> step]

GoodImages == [l |-> Image(6, 4, 6), r |-> Image(6, 4, 6)]

BadImages ==
    { [l |-> Image(6, 4, 6), r |-> Image(6, 4, 8)],   \* l_step # r_step
      [l |-> Image(6, 4, 8), r |-> Image(6, 4, 8)],   \* row padding
      [l |-> Image(8, 4, 8), r |-> Image(6, 4, 8)],   \* widths differ
      [l |-> Image(6, 4, 6), r |-> Image(6, 5, 6)] }  \* heights differ

Stamps == 0..MaxTime

\* fovis::MotionEstimateStatusCode
SUCCESS == "SUCCESS"
NO_DATA == "NO_DATA"
INSUFFICIENT_INLIERS == "INSUFFICIENT_INLIERS"

\* 6x6 motion covariances of the engine, indexed (i, j) with i, j in 0..5
CovA == [i \in 0..5 |-> [j \in 0..5 |-> 6 * i + j]]
CovB == [i \in 0..5 |-> [j \in 0..5 |-> IF i = j THEN 1 ELSE 0]]

\* What the engine answers after processFrame: the status, the absolute
\* pose, the incremental motion and its covariance.
Estimate(pose, motion, cov) ==
    [status |-> SUCCESS, pose |-> pose, motion |-> motion, cov |-> cov]

\* Behind a status that is not SUCCESS the engine holds stale values.
Failed(st) == [status |-> st, pose |-> Identity, motion |-> Identity, cov |-> CovB]

Succeeded ==
    { Estimate(Identity, Identity, CovB),
      Estimate(Transform(1, Vec(2, 1, 1)), Transform(0, Vec(1, 0, -2)), CovA),
      Estimate(Transform(3, Vec(0, -1, 2)), Transform(3, Vec(0, 3, 0)), CovB) }

FailedStatus == {NO_DATA, INSUFFICIENT_INLIERS}

\* The frame-offset source: what tf_listener_ answers for
\* (base_link_frame_id_, sensor_frame_id_, ros::Time(0))
Unavailable == [available |-> FALSE]
Available(t) == [available |-> TRUE, transform |-> t]

TfStates ==
    { Unavailable, Available(Identity), Available(Transform(1, Vec(0, 1, 2))) }

----------------------------------------------------------------------------
(* The node.  An operation takes the object (a record of its fields) and   *)
(* returns it as the operation leaves it.  Fields:                         *)
(*   visual_odometer_, stereo_depth_   NULL or the constructed engine pair *)
(*   last_time_                        ros::Time, 0 is the zero time       *)
(*   publish_tf_                       the parameter read at construction  *)
(*   tf_listener_                      what the frame-offset source holds  *)
(*   odom_pub_, pose_pub_, tf_broadcaster_                                 *)
(*                     the messages handed to each channel by the callback *)
(*                     that ran last                                       *)
(*   calls             the external calls of that callback and its write   *)
(*                     of last_time_ ("last_time_ ="), in order            *)
(*   dt                timestamp - last_time_ in that callback, in ticks   *)
(*   inits             how many times initOdometer has run                 *)
(*   running           FALSE once ROS_ASSERT has aborted the process       *)
(***************************************************************************)

Call(self, name) == [self EXCEPT !.calls = Append(@, name)]

Called(self, name) == \E k \in DOMAIN self.calls : self.calls[k] = name

\* image_geometry::StereoCameraModel::fromCameraInfo
fromCameraInfo(l_info, r_info) == [left |-> l_info, right |-> r_info]

\* image_geometry::StereoCameraModel::baseline: -right.Tx() / right.fx()
baseline(model) == Div(-model.right.Tx, model.right.fx)

\* lines 71-78
left_parameters(model, l_info) ==
    [cx |-> model.left.cx, cy |-> model.left.cy,
     fx |-> model.left.fx, fy |-> model.left.fy,
     height |-> l_info.height, width |-> l_info.width]

\* lines 79-86
right_parameters(model, r_info) ==
    [cx |-> model.right.cx, cy |-> model.right.cy,
     fx |-> model.right.fx, fy |-> model.right.fy,
     height |-> r_info.height, width |-> r_info.width]

\* stereo_parameters with the sign of the baseline lost
stereo_parameters_plusBaseline(model, l_info, r_info) ==
    [left_parameters |-> left_parameters(model, l_info),
     right_parameters |-> right_parameters(model, r_info),
     right_to_left_rotation |-> <<1, 0, 0, 0>>,
     right_to_left_translation |-> <<baseline(model), Zero, Zero>>]

\* lines 88-97
stereo_parameters(model, l_info, r_info) ==
    [left_parameters |-> left_parameters(model, l_info),
     right_parameters |-> right_parameters(model, r_info),
     right_to_left_rotation |-> <<1, 0, 0, 0>>,
     right_to_left_translation |-> <<Neg(baseline(model)), Zero, Zero>>]

\* lines 62-105
initOdometer(self, l_info, r_info) ==
    LET model == fromCameraInfo(l_info, r_info)
    IN  [self EXCEPT
           !.stereo_depth_ =
               [calibration |-> stereo_parameters(model, l_info, r_info),
                options |-> visual_odometer_options_],
           !.visual_odometer_ =
               [rectification |-> left_parameters(model, l_info),
                options |-> visual_odometer_options_,
                estimate |-> Failed(NO_DATA)],
           !.inits = @ + 1,
           !.calls = Append(@, "ROS_INFO")]

\* nav_msgs::Odometry(): every numeric field of a new message is 0
ZeroTwist ==
    [linear |-> [x |-> Zero, y |-> Zero, z |-> Zero],
     angular |-> [x |-> Zero, y |-> Zero, z |-> Zero]]

\* twist with the elapsed time tested by dt >= 0.0
twist_dtNotNegative(self, timestamp) ==
    IF self.last_time_ # 0
    THEN LET elapsed == timestamp - self.last_time_
             dt == ToFloat(elapsed, TicksPerSec)
         IN  IF dt[1] >= 0
             THEN LET last_motion == self.visual_odometer_.estimate.motion
                      aa == AngleAxisd(last_motion.rot)
                  IN  [dt |-> Some(elapsed), read |-> TRUE,
                       twist |->
                         [linear |-> [x |-> Quot(last_motion.origin.x, dt),
                                      y |-> Quot(last_motion.origin.y, dt),
                                      z |-> Quot(last_motion.origin.z, dt)],
                          angular |-> [x |-> Quot(aa.axis.x * aa.angle, dt),
                                       y |-> Quot(aa.axis.y * aa.angle, dt),
                                       z |-> Quot(aa.axis.z * aa.angle, dt)]]]
             ELSE [dt |-> Some(elapsed), read |-> FALSE, twist |-> ZeroTwist]
    ELSE [dt |-> None, read |-> FALSE, twist |-> ZeroTwist]

\* twist without the test of last_time_.isZero()
twist_noZeroTest(self, timestamp) ==
    LET elapsed == timestamp - self.last_time_
        dt == ToFloat(elapsed, TicksPerSec)
    IN  IF IsPositive(dt)
        THEN LET last_motion == self.visual_odometer_.estimate.motion
                 aa == AngleAxisd(last_motion.rot)
             IN  [dt |-> Some(elapsed), read |-> TRUE,
                  twist |->
                    [linear |-> [x |-> Quot(last_motion.origin.x, dt),
                                 y |-> Quot(last_motion.origin.y, dt),
                                 z |-> Quot(last_motion.origin.z, dt)],
                     angular |-> [x |-> Quot(aa.axis.x * aa.angle, dt),
                                  y |-> Quot(aa.axis.y * aa.angle, dt),
                                  z |-> Quot(aa.axis.z * aa.angle, dt)]]]
        ELSE [dt |-> Some(elapsed), read |-> FALSE, twist |-> ZeroTwist]

\* lines 126-142: the velocity part of the odometry message; dt is a float
\* (line 128), the quotients are doubles
twist(self, timestamp) ==
    IF self.last_time_ # 0
    THEN LET elapsed == timestamp - self.last_time_
             dt == ToFloat(elapsed, TicksPerSec)
         IN  IF IsPositive(dt)
             THEN LET last_motion == self.visual_odometer_.estimate.motion
                      last_translation == last_motion.origin
                      aa == AngleAxisd(last_motion.rot)
                  IN  [dt |-> Some(elapsed), read |-> TRUE,
                       twist |->
                         [linear |-> [x |-> Quot(last_translation.x, dt),
                                      y |-> Quot(last_translation.y, dt),
                                      z |-> Quot(last_translation.z, dt)],
                          angular |-> [x |-> Quot(aa.axis.x * aa.angle, dt),
                                       y |-> Quot(aa.axis.y * aa.angle, dt),
                                       z |-> Quot(aa.axis.z * aa.angle, dt)]]]
             ELSE [dt |-> Some(elapsed), read |-> FALSE, twist |-> ZeroTwist]
    ELSE [dt |-> None, read |-> FALSE, twist |-> ZeroTwist]

\* covariance copied row by row: covariance[i*6+j] = motion_cov(i,j)
covariance_rowByRow(motion_cov) == [k \in 0..35 |-> motion_cov[k \div 6][k % 6]]

\* lines 144-146: covariance[j*6+i] = motion_cov(i,j)
covariance(motion_cov) == [k \in 0..35 |-> motion_cov[k % 6][k \div 6]]

\* the warning printed every time it is reached (ROS_WARN)
ROS_WARN(period, hit, t) == [last_hit |-> t, printed |-> TRUE]

\* line 171, rosconsole ROS_LOG_THROTTLE: static double last_hit = 0.0;
\* now = ros::Time::now(); if (last_hit + period <= now) { last_hit = now;
\* print }.  hit is the static, t the clock when the macro is reached.
ROS_WARN_THROTTLE(period, hit, t) ==
    IF hit + period <= t
    THEN [last_hit |-> t, printed |-> TRUE]
    ELSE [last_hit |-> hit, printed |-> FALSE]

\* lines 160-177: the offset of the sensor in the base frame, or identity
base_to_sensor(self) ==
    IF self.tf_listener_.available
    THEN [transform |-> self.tf_listener_.transform,
          calls |-> <<"canTransform", "lookupTransform">>]
    ELSE [transform |-> Identity,
          calls |-> <<"canTransform", "ROS_WARN_THROTTLE">>]

\* base_transform composed without the inverse offset
base_transform_noInverse(b2s, pose_transform) == Mul(b2s, pose_transform)

\* base_transform left as the sensor pose, whatever the offset
base_transform_sensorPose(b2s, pose_transform) == pose_transform

\* line 185
base_transform(b2s, pose_transform) == Mul(Mul(b2s, pose_transform), Inverse(b2s))

\* broadcast giving up when the offset cannot be resolved
broadcast_needsOffset(self, translation, rotation, timestamp) ==
    IF self.tf_listener_.available
    THEN LET pose_transform == Transform(BasisOfQuaternion(rotation), translation)
         IN  [self EXCEPT
                !.calls = @ \o <<"canTransform", "lookupTransform", "ROS_INFO", "sendTransform">>,
                !.tf_broadcaster_ =
                    Append(@, [transform |-> base_transform(self.tf_listener_.transform,
                                                            pose_transform),
                               stamp |-> timestamp,
                               frame_id |-> odom_frame_id_,
                               child_frame_id |-> base_link_frame_id_])]
    ELSE [self EXCEPT !.calls = @ \o <<"canTransform", "ROS_WARN_THROTTLE">>]

\* lines 159-190: transform the pose to the base frame and broadcast it
broadcast(self, translation, rotation, timestamp) ==
    LET b2s == base_to_sensor(self)
        pose_transform == Transform(BasisOfQuaternion(rotation), translation)
    IN  [self EXCEPT
           !.calls = @ \o b2s.calls \o <<"ROS_INFO", "sendTransform">>,
           !.tf_broadcaster_ =
               Append(@, [transform |-> base_transform(b2s.transform, pose_transform),
                          stamp |-> timestamp,
                          frame_id |-> odom_frame_id_,
                          child_frame_id |-> base_link_frame_id_])]

\* sendTransform whatever publish_tf_ says
sendTransform_always(self, translation, rotation, timestamp) ==
    broadcast(self, translation, rotation, timestamp)

\* lines 156-191: if user wants to publish the tf
sendTransform(self, translation, rotation, timestamp) ==
    IF self.publish_tf_
    THEN broadcast(self, translation, rotation, timestamp)
    ELSE self

\* mountAndPublish with the pose-only record a copy of the odometry header
mountAndPublish_poseCopiesHeader(self, pose, motion_cov, timestamp) ==
    LET translation == pose.origin
        rotation == Quaterniond(pose.rot)
        v == twist(self, timestamp)
        odom_msg ==
            [header |-> [stamp |-> timestamp, frame_id |-> odom_frame_id_],
             child_frame_id |-> base_link_frame_id_,
             pose |-> [position |-> translation, orientation |-> rotation],
             twist |-> v.twist,
             covariance |-> covariance(motion_cov)]
        pose_msg == [header |-> odom_msg.header, pose |-> odom_msg.pose]
        published ==
            [self EXCEPT
               !.dt = v.dt,
               !.calls = @ \o (IF v.read THEN <<"getMotionEstimate">> ELSE <<>>)
                           \o <<"odom_pub_.publish", "pose_pub_.publish">>,
               !.odom_pub_ = Append(@, odom_msg),
               !.pose_pub_ = Append(@, pose_msg)]
        sent == sendTransform(published, translation, rotation, timestamp)
    IN  [Call(sent, "last_time_ =") EXCEPT !.last_time_ = timestamp]

\* mountAndPublish keeping the latest stamp: last_time_ never moves back
mountAndPublish_keepsLatest(self, pose, motion_cov, timestamp) ==
    LET translation == pose.origin
        rotation == Quaterniond(pose.rot)
        v == twist(self, timestamp)
        odom_msg ==
            [header |-> [stamp |-> timestamp, frame_id |-> odom_frame_id_],
             child_frame_id |-> base_link_frame_id_,
             pose |-> [position |-> translation, orientation |-> rotation],
             twist |-> v.twist,
             covariance |-> covariance(motion_cov)]
        pose_msg ==
            [header |-> [stamp |-> odom_msg.header.stamp,
                         frame_id |-> odom_msg.child_frame_id],
             pose |-> odom_msg.pose]
        published ==
            [self EXCEPT
               !.dt = v.dt,
               !.calls = @ \o (IF v.read THEN <<"getMotionEstimate">> ELSE <<>>)
                           \o <<"odom_pub_.publish", "pose_pub_.publish">>,
               !.odom_pub_ = Append(@, odom_msg),
               !.pose_pub_ = Append(@, pose_msg)]
        sent == sendTransform(published, translation, rotation, timestamp)
    IN  IF timestamp > self.last_time_
        THEN [Call(sent, "last_time_ =") EXCEPT !.last_time_ = timestamp]
        ELSE sent

\* lines 107-194
mountAndPublish(self, pose, motion_cov, timestamp) ==
    LET translation == pose.origin
        rotation == Quaterniond(pose.rot)
        v == twist(self, timestamp)
        odom_msg ==
            [header |-> [stamp |-> timestamp, frame_id |-> odom_frame_id_],
             child_frame_id |-> base_link_frame_id_,
             pose |-> [position |-> translation, orientation |-> rotation],
             twist |-> v.twist,
             covariance |-> covariance(motion_cov)]
        pose_msg ==
            [header |-> [stamp |-> odom_msg.header.stamp,
                         frame_id |-> odom_msg.child_frame_id],
             pose |-> odom_msg.pose]
        published ==
            [self EXCEPT
               !.dt = v.dt,
               !.calls = @ \o (IF v.read THEN <<"getMotionEstimate">> ELSE <<>>)
                           \o <<"odom_pub_.publish", "pose_pub_.publish">>,
               !.odom_pub_ = Append(@, odom_msg),
               !.pose_pub_ = Append(@, pose_msg)]
        sent == sendTransform(published, translation, rotation, timestamp)
    IN  [Call(sent, "last_time_ =") EXCEPT !.last_time_ = timestamp]

\* lines 221-224
FormatOk(l_image, r_image) ==
    /\ l_image.step = r_image.step
    /\ l_image.step = l_image.width
    /\ l_image.width = r_image.width
    /\ l_image.height = r_image.height

\* processFrame with the left image processed before the right one is set
processFrame_leftFirst(self, est) ==
    LET fed == Call(Call(self, "processFrame"), "setRightImage")
    IN  [fed EXCEPT !.visual_odometer_.estimate = est]

\* lines 226-228: the engine takes the frame pair; what it then answers is
\* the engine's own doing (est).
processFrame(self, est) ==
    LET fed == Call(Call(self, "setRightImage"), "processFrame")
    IN  [fed EXCEPT !.visual_odometer_.estimate = est]

\* createOdometer without the test of the handle
createOdometer_everyFrame(self, l_info, r_info) ==
    initOdometer(self, l_info, r_info)

\* lines 202-208: create odometer if not exists
createOdometer(self, l_info, r_info) ==
    IF self.visual_odometer_ = NULL
    THEN initOdometer(self, l_info, r_info)
    ELSE self

\* publishOrReport taking every status but NO_DATA for an estimate
publishOrReport_unlessNoData(self, stamp) ==
    LET asked == Call(self, "getMotionEstimateStatus")
        status == asked.visual_odometer_.estimate.status
    IN  IF status # NO_DATA
        THEN mountAndPublish(
                 Call(Call(asked, "getPose"), "getMotionEstimateCov"),
                 asked.visual_odometer_.estimate.pose,
                 asked.visual_odometer_.estimate.cov,
                 stamp)
        ELSE Call(asked, "ROS_ERROR")

\* publishOrReport remembering the stamp of a failed frame too
publishOrReport_stampsFailure(self, stamp) ==
    LET asked == Call(self, "getMotionEstimateStatus")
        status == asked.visual_odometer_.estimate.status
    IN  IF status = SUCCESS
        THEN mountAndPublish(
                 Call(Call(asked, "getPose"), "getMotionEstimateCov"),
                 asked.visual_odometer_.estimate.pose,
                 asked.visual_odometer_.estimate.cov,
                 stamp)
        ELSE [Call(Call(asked, "ROS_ERROR"), "last_time_ =") EXCEPT !.last_time_ = stamp]

\* lines 230-246: publish on SUCCESS, report the status otherwise
publishOrReport(self, stamp) ==
    LET asked == Call(self, "getMotionEstimateStatus")
        status == asked.visual_odometer_.estimate.status
    IN  IF status = SUCCESS
        THEN mountAndPublish(
                 Call(Call(asked, "getPose"), "getMotionEstimateCov"),
                 asked.visual_odometer_.estimate.pose,
                 asked.visual_odometer_.estimate.cov,
                 stamp)
        ELSE Call(asked, "ROS_ERROR")

\* lines 196-247.  checked: whether ROS_ASSERT is compiled in (no NDEBUG).
\* The outward channels and the call record start empty at every callback.
imageCallback(self, l_image, r_image, l_info, r_info, stamp, est, checked) ==
    LET fresh == [self EXCEPT !.calls = <<>>, !.dt = None, !.odom_pub_ = <<>>,
                              !.pose_pub_ = <<>>, !.tf_broadcaster_ = <<>>]
        ready == createOdometer(fresh, l_info, r_info)
    IN  IF checked /\ ~FormatOk(l_image, r_image)
        THEN [Call(ready, "ROS_BREAK") EXCEPT !.running = FALSE]
        ELSE publishOrReport(processFrame(ready, est), stamp)

----------------------------------------------------------------------------
(* State *)

VARIABLES
    visual_odometer_, stereo_depth_, last_time_, publish_tf_, tf_listener_,
    odom_pub_, pose_pub_, tf_broadcaster_,
    calls, dt, inits, running,
    asserts,    \* the build: TRUE when ROS_ASSERT is compiled in
    frame,      \* the event handled last, as delivered (NULL before the first)
    history,    \* the frames so far, as the engine answered them
    twin,       \* a second node fed the same events (NULL when there is none)
    now,        \* ros::Time::now() when the callback ran last
    last_hit,   \* the static of ROS_WARN_THROTTLE (line 171)
    warnings,   \* the clock readings at which the warning was printed
    warned      \* whether the callback that ran last printed the warning

fields == <<visual_odometer_, stereo_depth_, last_time_, publish_tf_, tf_listener_,
            odom_pub_, pose_pub_, tf_broadcaster_, calls, dt, inits, running>>

clock == <<now, last_hit, warnings, warned>>

vars == <<fields, asserts, frame, history, twin, clock>>

Self ==
    [visual_odometer_ |-> visual_odometer_, stereo_depth_ |-> stereo_depth_,
     last_time_ |-> last_time_, publish_tf_ |-> publish_tf_,
     tf_listener_ |-> tf_listener_, odom_pub_ |-> odom_pub_,
     pose_pub_ |-> pose_pub_, tf_broadcaster_ |-> tf_broadcaster_,
     calls |-> calls, dt |-> dt, inits |-> inits, running |-> running]

Becomes(r) ==
    /\ visual_odometer_' = r.visual_odometer_
    /\ stereo_depth_' = r.stereo_depth_
    /\ last_time_' = r.last_time_
    /\ publish_tf_' = r.publish_tf_
    /\ tf_listener_' = r.tf_listener_
    /\ odom_pub_' = r.odom_pub_
    /\ pose_pub_' = r.pose_pub_
    /\ tf_broadcaster_' = r.tf_broadcaster_
    /\ calls' = r.calls
    /\ dt' = r.dt
    /\ inits' = r.inits
    /\ running' = r.running

\* The object as the constructor leaves it (lines 44-58); last_time_ is ros::Time().
StereoOdometer(publish_tf) ==
    [visual_odometer_ |-> NULL, stereo_depth_ |-> NULL, last_time_ |-> 0,
     publish_tf_ |-> publish_tf, tf_listener_ |-> Unavailable,
     odom_pub_ |-> <<>>, pose_pub_ |-> <<>>, tf_broadcaster_ |-> <<>>,
     calls |-> <<>>, dt |-> None, inits |-> 0, running |-> TRUE]

\* success: the stamp of the latest successful frame; failed: the stamp of
\* the latest failed frame since then
NoHistory == [success |-> None, failed |-> None]

InitNode ==
    /\ \E p \in BOOLEAN :
         /\ visual_odometer_ = NULL /\ stereo_depth_ = NULL /\ last_time_ = 0
         /\ publish_tf_ = p /\ tf_listener_ = Unavailable
         /\ odom_pub_ = <<>> /\ pose_pub_ = <<>> /\ tf_broadcaster_ = <<>>
         /\ calls = <<>> /\ dt = None /\ inits = 0 /\ running = TRUE
    /\ asserts \in BOOLEAN
    /\ frame = NULL
    /\ history = NoHistory

\* The ROS clock reads t and the warning has never been printed.
InitClock(t) == now = t /\ last_hit = 0 /\ warnings = <<>> /\ warned = FALSE

Init == InitNode /\ twin = NULL /\ InitClock(0)

\* The image-pair events of a run, each with what the engine and the
\* frame-offset source answer while it is handled: well-formed pairs with
\* every stamp, and each malformed pair with one succeeding and one failing
\* answer.
Frames ==
    { [images |-> GoodImages, stamp |-> t, est |-> e, tf |-> tf] :
        t \in Stamps, e \in Succeeded, tf \in TfStates }
    \cup
    { [images |-> GoodImages, stamp |-> t, est |-> Failed(st), tf |-> Unavailable] :
        t \in Stamps, st \in FailedStatus }
    \cup
    { [images |-> b, stamp |-> MaxTime, est |-> e, tf |-> Unavailable] :
        b \in BadImages,
        e \in {Estimate(Transform(0, Vec(1, 0, 0)), Transform(0, Vec(1, 0, 0)), CovA),
               Failed(NO_DATA)} }

\* The events of the runs that vary the calibration.
CalibFrames ==
    { [images |-> GoodImages, stamp |-> t, est |-> e, tf |-> Unavailable] :
        t \in Stamps,
        e \in {Estimate(Transform(1, Vec(2, 1, 1)), Transform(0, Vec(1, 0, -2)), CovA),
               Failed(NO_DATA)} }

\* The run of the callback on one node.
Handle(self, info, f) ==
    imageCallback([self EXCEPT !.tf_listener_ = f.tf],
                  f.images.l, f.images.r, info.l, info.r, f.stamp, f.est, asserts)

\* What the event adds to the record of the run.
Seen(info, f, r) ==
    LET processed == Called(r, "processFrame")
        ok == processed /\ f.est.status = SUCCESS
    IN  /\ frame' = [first_info |-> IF frame = NULL THEN info ELSE frame.first_info,
                     recalibrated |-> IF frame = NULL THEN FALSE
                                      ELSE frame.recalibrated \/ info # frame.first_info,
                     stamp |-> f.stamp, status |-> f.est.status,
                     good |-> FormatOk(f.images.l, f.images.r),
                     processed |-> processed, before |-> history]
        /\ history' = IF ok THEN [success |-> Some(f.stamp), failed |-> None]
                      ELSE IF processed
                           THEN [history EXCEPT !.failed = Some(f.stamp)]
                           ELSE history

\* The clock has advanced to t when the callback runs; the warning of line
\* 171 is printed or not as the throttle decides when the callback reaches it.
Logged(r, t) ==
    LET w == IF Called(r, "ROS_WARN_THROTTLE")
             THEN ROS_WARN_THROTTLE(ThrottlePeriod, last_hit, t)
             ELSE [last_hit |-> last_hit, printed |-> FALSE]
    IN  /\ now' = t
        /\ last_hit' = w.last_hit
        /\ warned' = w.printed
        /\ warnings' = IF w.printed THEN Append(warnings, t) ELSE warnings

\* One image-pair event (the synchronizer calls imageCallback), after the
\* ROS clock has advanced by one of ticks.
Deliver(infos, frames, ticks) ==
    /\ running
    /\ \E info \in infos, f \in frames, tick \in ticks :
         LET r == Handle(Self, info, f)
         IN  /\ now + tick <= MaxNow
             /\ Becomes(r)
             /\ Seen(info, f, r)
             /\ Logged(r, now + tick)
    /\ UNCHANGED asserts

\* The runs in which the ROS clock stands still (simulated time).
Still == {0}

ImageCallback == Deliver(Calibrated, Frames, Still) /\ UNCHANGED twin

Next == ImageCallback

Spec == Init /\ [][Next]_vars

\* The runs that vary the calibration records of the events.
ImageCallbackCalib == Deliver(InfoSet, CalibFrames, Still) /\ UNCHANGED twin

NextCalib == ImageCallbackCalib

SpecCalib == Init /\ [][NextCalib]_vars

\* Two nodes that differ in publish_tf only, fed the same events.
InitTwin == InitNode /\ twin = StereoOdometer(~publish_tf_) /\ InitClock(0)

ImageCallbackTwin ==
    /\ running
    /\ \E info \in Calibrated, f \in Frames :
         LET r == Handle(Self, info, f)
         IN  /\ Becomes(r)
             /\ Seen(info, f, r)
             /\ twin' = Handle(twin, info, f)
             /\ Logged(r, now)
    /\ UNCHANGED asserts

NextTwin == ImageCallbackTwin

SpecTwin == InitTwin /\ [][NextTwin]_vars

\* The runs in which the ROS clock advances between the events: successful
\* and failing frames, with the offset resolved or not.
ThrottleFrames ==
    { [images |-> GoodImages, stamp |-> t, est |-> e, tf |-> tf] :
        t \in {1, 2},
        e \in {Estimate(Transform(1, Vec(2, 1, 1)), Transform(0, Vec(1, 0, -2)), CovA),
               Failed(NO_DATA)},
        tf \in {Unavailable, Available(Transform(1, Vec(0, 1, 2)))} }

\* The advances of the clock from one event to the next.
Ticks == {0, 4, ThrottlePeriod}

\* The clock starts at zero (simulated time) or later (wall time).
InitThrottle ==
    InitNode /\ twin = NULL /\ \E t \in {0, ThrottlePeriod + 2} : InitClock(t)

ImageCallbackThrottle == Deliver(Calibrated, ThrottleFrames, Ticks) /\ UNCHANGED twin

NextThrottle == ImageCallbackThrottle

SpecThrottle == InitThrottle /\ [][NextThrottle]_vars

\* Two nodes with the same publish_tf, fed the same events; only what the
\* frame-offset source answers to each of them differs.
OffsetFrames ==
    { [images |-> GoodImages, stamp |-> t, est |-> e, tf |-> tf] :
        t \in {1, 2},
        e \in {Estimate(Identity, Identity, CovB),
               Estimate(Transform(1, Vec(2, 1, 1)), Transform(0, Vec(1, 0, -2)), CovA),
               Failed(NO_DATA)},
        tf \in TfStates }

InitOffset == InitNode /\ twin = StereoOdometer(publish_tf_) /\ InitClock(0)

ImageCallbackOffset ==
    /\ running
    /\ \E info \in Calibrated, f \in OffsetFrames, tf \in TfStates :
         LET r == Handle(Self, info, f)
         IN  /\ Becomes(r)
             /\ Seen(info, f, r)
             /\ twin' = Handle(twin, info, [f EXCEPT !.tf = tf])
             /\ Logged(r, now)
    /\ UNCHANGED asserts

NextOffset == ImageCallbackOffset

SpecOffset == InitOffset /\ [][NextOffset]_vars

----------------------------------------------------------------------------
(* Properties *)

\* The event handled last reached the engine, which answered SUCCESS.
Success == frame # NULL /\ frame.processed /\ frame.status = SUCCESS

\* The event handled last reached the engine, which answered another status.
Failure == frame # NULL /\ frame.processed /\ frame.status # SUCCESS

\* The callback that ran last wrote the velocity fields (it read the
\* engine's incremental motion to do so).
Populated == Called(Self, "getMotionEstimate")

\* The callback that ran last handed something to an outward channel.
Emitted ==
    \/ odom_pub_ # <<>> \/ pose_pub_ # <<>> \/ tf_broadcaster_ # <<>>
    \/ Called(Self, "odom_pub_.publish") \/ Called(Self, "pose_pub_.publish")
    \/ Called(Self, "sendTransform")

\* The stamp of the successful frame before the one handled last.
PreviousSuccess == frame.before.success[1]

\* C1: the engine pair is constructed by initOdometer exactly once, on the
\* first image-pair event, from that event's calibration records, and is
\* never constructed again, whatever calibration later events deliver.
C1_InitOnce ==
    /\ frame = NULL =>
         inits = 0 /\ visual_odometer_ = NULL /\ stereo_depth_ = NULL
    /\ frame # NULL =>
         /\ inits = 1
         /\ visual_odometer_ # NULL /\ stereo_depth_ # NULL
         /\ visual_odometer_.rectification.width = frame.first_info.l.width
         /\ visual_odometer_.rectification.height = frame.first_info.l.height
         /\ visual_odometer_.rectification.fx = frame.first_info.l.fx
         /\ stereo_depth_.calibration.right_parameters.width = frame.first_info.r.width
         /\ stereo_depth_.calibration.right_parameters.cx = frame.first_info.r.cx
         /\ stereo_depth_.calibration.right_to_left_translation[1]
              = Div(frame.first_info.r.Tx, frame.first_info.r.fx)

\* A later event delivered another calibration and the engine is the first one.
C1_Witness ==
    frame # NULL /\ frame.recalibrated /\ inits = 1 /\ visual_odometer_ # NULL

\* C2: a frame for which the engine answers a status other than SUCCESS
\* emits no odometry record, no pose-only record and no transform broadcast;
\* the failure is reported.
C2_FailureEmitsNothing ==
    Failure => ~Emitted /\ Called(Self, "ROS_ERROR")

\* A failed frame after a successful one, on a node that broadcasts transforms.
C2_Witness ==
    /\ Failure /\ publish_tf_ /\ frame.status = INSUFFICIENT_INLIERS
    /\ history.success # None /\ Called(Self, "ROS_ERROR")

\* C3: a failed frame leaves last_time_ as the last successful frame set it,
\* and the elapsed time computed for a successful frame at t2 is t2 - t1,
\* t1 the stamp of the successful frame before it, whatever failed in between.
C3_ElapsedSinceLastSuccess ==
    /\ Failure =>
         last_time_ = IF frame.before.success = None THEN 0 ELSE PreviousSuccess
    /\ (Success /\ frame.before.success # None) =>
         /\ dt \in {None, Some(frame.stamp - PreviousSuccess)}
         /\ Populated => dt = Some(frame.stamp - PreviousSuccess)

\* success(t1), a failure at another stamp, success(t2) with velocity written.
C3_Witness ==
    /\ Success /\ frame.before.success # None /\ frame.before.failed # None
    /\ frame.before.failed # frame.before.success
    /\ frame.before.failed # Some(frame.stamp)
    /\ Populated /\ dt = Some(frame.stamp - PreviousSuccess)

\* Two successful frames with no failed frame between them.
Consecutive ==
    Success /\ frame.before.success # None /\ frame.before.failed = None

C5_FirstSuccessNoVelocity ==
    (Success /\ frame.before.success = None) =>
        /\ Len(odom_pub_) = 1
        /\ ~Populated /\ dt = None
        /\ odom_pub_[1].twist = ZeroTwist

\* The first success, at a stamp above zero, after a failed frame.
C5_Witness ==
    /\ Success /\ frame.before.success = None /\ frame.before.failed # None
    /\ frame.stamp > 0 /\ Len(odom_pub_) = 1

\* The node does not broadcast and never asks the frame-offset source.
NoTransform(node) ==
    /\ node.tf_broadcaster_ = <<>>
    /\ ~Called(node, "canTransform") /\ ~Called(node, "lookupTransform")
    /\ ~Called(node, "sendTransform")

\* C6: two nodes that differ in publish_tf only and are fed the same events
\* emit the same odometry and pose-only records and hold the same last_time_
\* after every event; the one with publish_tf = false broadcasts no transform
\* and never queries the frame-offset source.
C6_SameStreams ==
    twin # NULL =>
        /\ publish_tf_ # twin.publish_tf_
        /\ odom_pub_ = twin.odom_pub_
        /\ pose_pub_ = twin.pose_pub_
        /\ last_time_ = twin.last_time_
        /\ ~publish_tf_ => NoTransform(Self)
        /\ ~twin.publish_tf_ => NoTransform(twin)

\* A successful frame with a velocity: one node broadcasts, the other does not.
C6_Witness ==
    /\ twin # NULL /\ Success /\ Populated /\ publish_tf_
    /\ Len(tf_broadcaster_) = 1 /\ twin.tf_broadcaster_ = <<>>
    /\ Len(twin.odom_pub_) = 1 /\ Len(twin.pose_pub_) = 1

\* C7: a successful frame on a node that broadcasts transforms, handled while
\* the frame-offset source cannot resolve the offset, does not fail: the
\* odometry record, the pose-only record and a transform are emitted, the
\* transform is the one identity gives (the sensor pose), and last_time_ is
\* the frame's stamp.
C7_IdentityFallback ==
    (Success /\ publish_tf_ /\ ~tf_listener_.available) =>
        /\ running
        /\ Len(odom_pub_) = 1 /\ Len(pose_pub_) = 1 /\ Len(tf_broadcaster_) = 1
        /\ ~Called(Self, "lookupTransform")
        /\ tf_broadcaster_[1].transform = visual_odometer_.estimate.pose
        /\ last_time_ = frame.stamp

\* Such a frame, with a sensor pose that is not the identity.
C7_Witness ==
    /\ Success /\ publish_tf_ /\ ~tf_listener_.available
    /\ visual_odometer_.estimate.pose # Identity
    /\ Len(tf_broadcaster_) = 1 /\ last_time_ = frame.stamp

\* The offset the callback that ran last composed with.
Offset == IF tf_listener_.available THEN tf_listener_.transform ELSE Identity

\* C8: the broadcast transform T satisfies T * B = B * P, that is
\* T = B * P * inverse(B), for the sensor pose P and the offset B; when B is
\* the identity, T is P.
C8_Composition ==
    (Success /\ tf_broadcaster_ # <<>>) =>
        LET P == visual_odometer_.estimate.pose
            T == tf_broadcaster_[1].transform
        IN  /\ Mul(T, Offset) = Mul(Offset, P)
            /\ Offset = Identity => T = P

\* The offset was looked up and is the identity; the pose is not.
C8_Witness ==
    /\ Success /\ Len(tf_broadcaster_) = 1
    /\ tf_listener_.available /\ tf_listener_.transform = Identity
    /\ visual_odometer_.estimate.pose # Identity
    /\ tf_broadcaster_[1].transform = visual_odometer_.estimate.pose

\* A calibration with a zero image dimension or a baseline that is not finite.
Malformed(info) ==
    \/ info.l.width = 0 \/ info.l.height = 0
    \/ info.r.width = 0 \/ info.r.height = 0
    \/ ~IsFinite(Div(-info.r.Tx, info.r.fx))

\* C9 as stated: when the calibration of the first event has a zero width or
\* height or gives a baseline that is not finite, the engine pair stays
\* unconstructed.
C9_AsStated ==
    (frame # NULL /\ Malformed(frame.first_info)) =>
        visual_odometer_ = NULL /\ stereo_depth_ = NULL

\* C10: for a calibration with baseline > 0 the stereo parameters given to
\* the engine have translation (-baseline, 0, 0) and rotation (1, 0, 0, 0),
\* and each camera's intrinsics are those of its own record.
C10_StereoParameters ==
    frame # NULL =>
        LET info == frame.first_info
            b == Div(-info.r.Tx, info.r.fx)
            p == stereo_depth_.calibration
            of(c) == [cx |-> c.cx, cy |-> c.cy, fx |-> c.fx, fy |-> c.fy,
                      height |-> c.height, width |-> c.width]
        IN  IsPositive(b) =>
              /\ p.right_to_left_translation = <<Neg(b), Zero, Zero>>
              /\ p.right_to_left_rotation = <<1, 0, 0, 0>>
              /\ p.left_parameters = of(info.l)
              /\ p.right_parameters = of(info.r)
              /\ visual_odometer_.rectification = of(info.l)

\* The engine was built from the calibration whose two records differ.
C10_Witness ==
    /\ frame # NULL /\ frame.first_info = InfoB /\ stereo_depth_ # NULL
    /\ stereo_depth_.calibration.right_to_left_translation = <<<<-1, 3>>, Zero, Zero>>
    /\ stereo_depth_.calibration.left_parameters # stereo_depth_.calibration.right_parameters

\* C11: for all i, j in 0..5 the 36-entry velocity covariance of the odometry
\* record holds the engine's motion covariance entry (i, j) at index j*6 + i;
\* the indices j*6 + i are each of the 36 slots exactly once, so every slot
\* is written once and no entry is altered or dropped.
C11_CovarianceTransposed ==
    Success =>
        LET motion_cov == visual_odometer_.estimate.cov
            written == odom_pub_[1].covariance
        IN  /\ DOMAIN written = 0..35
            /\ \A i \in 0..5, j \in 0..5 : written[j * 6 + i] = motion_cov[i][j]
            /\ \A k \in 0..35 :
                 Cardinality({ij \in (0..5) \X (0..5) : ij[2] * 6 + ij[1] = k}) = 1

\* A covariance that is not symmetric: entry (1, 0) is 6 and lands in slot 1,
\* entry (0, 1) is 1 and lands in slot 6.
C11_Witness ==
    /\ Success /\ Len(odom_pub_) = 1
    /\ visual_odometer_.estimate.cov = CovA
    /\ odom_pub_[1].covariance[1] = 6 /\ odom_pub_[1].covariance[6] = 1

\* How many times the callback that ran last made the call.
Count(name) == Cardinality({k \in DOMAIN calls : calls[k] = name})

\* C12: a successful frame emits exactly one odometry record and exactly one
\* pose-only record; the two carry the same pose and the same timestamp, the
\* stamp of the frame; the odometry record has parent odom_frame_id and child
\* base_link_frame_id; the reference frame of the pose-only record is the
\* child frame of the odometry record; a transform broadcast for the frame
\* carries the same timestamp, parent odom_frame_id and child
\* base_link_frame_id.
C12_ConsistentRecords ==
    Success =>
        /\ Len(odom_pub_) = 1 /\ Len(pose_pub_) = 1
        /\ Count("odom_pub_.publish") = 1 /\ Count("pose_pub_.publish") = 1
        /\ pose_pub_[1].pose = odom_pub_[1].pose
        /\ odom_pub_[1].header.stamp = frame.stamp
        /\ pose_pub_[1].header.stamp = frame.stamp
        /\ odom_pub_[1].header.frame_id = odom_frame_id_
        /\ odom_pub_[1].child_frame_id = base_link_frame_id_
        /\ pose_pub_[1].header.frame_id = odom_pub_[1].child_frame_id
        /\ Len(tf_broadcaster_) <= 1
        /\ \A k \in DOMAIN tf_broadcaster_ :
             /\ tf_broadcaster_[k].stamp = frame.stamp
             /\ tf_broadcaster_[k].frame_id = odom_frame_id_
             /\ tf_broadcaster_[k].child_frame_id = base_link_frame_id_

\* A successful frame with the three outputs, after an earlier success.
C12_Witness ==
    /\ Success /\ frame.before.success # None /\ frame.stamp > 0
    /\ Len(odom_pub_) = 1 /\ Len(pose_pub_) = 1 /\ Len(tf_broadcaster_) = 1
    /\ odom_pub_[1].pose.position = Vec(2, 1, 1)
    /\ pose_pub_[1].header.frame_id = "/base_link"
    /\ tf_broadcaster_[1].stamp = odom_pub_[1].header.stamp

\* last_time_ as it was before the event handled last.
LastTimeBefore ==
    IF frame.before.success = None THEN 0 ELSE frame.before.success[1]

\* C13 as stated: a frame whose images violate the format preconditions is
\* rejected before it reaches the engine: neither setRightImage nor
\* processFrame is invoked with its buffers, no outward record is emitted for
\* it, and last_time_ is not changed by it.
C13_AsStated ==
    (frame # NULL /\ ~frame.good) =>
        /\ ~Called(Self, "setRightImage") /\ ~Called(Self, "processFrame")
        /\ ~Emitted
        /\ last_time_ = LastTimeBefore

\* C14: the 'assume identity' warning is printed at most once per 10 ticks
\* of the clock: any two printed warnings are at least 10 ticks apart; and
\* on every successful frame of a broadcasting node for which the offset is
\* unavailable the identity is substituted (the broadcast transform is the
\* sensor pose), whether or not the warning is printed.
C14_ThrottledWarning ==
    /\ \A i \in DOMAIN warnings, j \in DOMAIN warnings :
         i < j => warnings[j] - warnings[i] >= 10
    /\ warned => Called(Self, "ROS_WARN_THROTTLE")
    /\ (Success /\ publish_tf_ /\ ~tf_listener_.available) =>
         /\ Called(Self, "ROS_WARN_THROTTLE")
         /\ Len(tf_broadcaster_) = 1
         /\ tf_broadcaster_[1].transform = visual_odometer_.estimate.pose

\* Two warnings have been printed, and the frame handled last, 4 ticks after
\* the second, had the identity substituted without a warning.
C14_Witness ==
    /\ Len(warnings) = 2 /\ now = warnings[2] + 4
    /\ Success /\ publish_tf_ /\ ~tf_listener_.available /\ ~warned
    /\ visual_odometer_.estimate.pose # Identity
    /\ tf_broadcaster_[1].transform = visual_odometer_.estimate.pose

\* C15 as stated: when the velocity of a successful frame with stamp t is
\* populated, each linear component is the component of the engine's
\* incremental motion translation divided by dt = t - last_time_ (in
\* seconds), and each angular component is axis component * angle / dt of the
\* incremental rotation; a translation of (1, 0, 0) hundredths with dt = 0.1 s
\* gives the linear velocity (10, 0, 0) hundredths per second.
C15_AsStated ==
    (Success /\ Populated) =>
        LET last_motion == visual_odometer_.estimate.motion
            aa == AngleAxisd(last_motion.rot)
            ticks == frame.stamp - LastTimeBefore
            over(x) == Div(x * TicksPerSec, ticks)
            v == odom_pub_[1].twist
        IN  /\ v.linear = [x |-> over(last_motion.origin.x),
                           y |-> over(last_motion.origin.y),
                           z |-> over(last_motion.origin.z)]
            /\ v.angular = [x |-> over(aa.axis.x * aa.angle),
                            y |-> over(aa.axis.y * aa.angle),
                            z |-> over(aa.axis.z * aa.angle)]
            /\ (last_motion.origin = Vec(1, 0, 0) /\ ticks = 1) =>
                 v.linear = [x |-> <<10, 1>>, y |-> Zero, z |-> Zero]

\* The places of the call in the callback that ran last.
Places(name) == {k \in DOMAIN calls : calls[k] = name}

\* Every call of the first name was made before every call of the second.
Before(first, second) == \A a \in Places(first), b \in Places(second) : a < b

\* C16: on every image-pair event that passes the format checks the right
\* image is given to the stereo-depth stage (setRightImage) before the left
\* image is processed (processFrame), the status is read only after
\* processFrame, and the pose and the covariance are read only when that
\* status is SUCCESS (and after it was read).
C16_CallOrder ==
    (frame # NULL /\ frame.good) =>
        /\ Count("setRightImage") = 1 /\ Count("processFrame") = 1
        /\ Count("getMotionEstimateStatus") = 1
        /\ Before("setRightImage", "processFrame")
        /\ Before("processFrame", "getMotionEstimateStatus")
        /\ Before("getMotionEstimateStatus", "getPose")
        /\ Before("getMotionEstimateStatus", "getMotionEstimateCov")
        /\ (Called(Self, "getPose") \/ Called(Self, "getMotionEstimateCov")) =>
             frame.status = SUCCESS
        /\ frame.status = SUCCESS =>
             Count("getPose") = 1 /\ Count("getMotionEstimateCov") = 1

\* A well-formed frame after the first: the five calls in their order,
\* followed by the reading of the incremental motion.
C16_Witness ==
    /\ frame # NULL /\ frame.good /\ frame.status = SUCCESS
    /\ Len(calls) >= 6
    /\ SubSeq(calls, 1, 6) = <<"setRightImage", "processFrame",
                                "getMotionEstimateStatus", "getPose",
                                "getMotionEstimateCov", "getMotionEstimate">>

\* C17: after every successful frame last_time_ is the stamp of that frame,
\* also when the velocity was not written because the stamp is not after the
\* previous last_time_ (last_time_ can move backwards); it is written once,
\* after the odometry record, the pose-only record and the transform (when
\* there is one) have been emitted; and in every reachable state last_time_
\* is zero, no frame having succeeded, or the stamp of the latest successful
\* frame.
C17_LastTimeIsLatestSuccess ==
    /\ Success =>
         /\ last_time_ = frame.stamp
         /\ Count("last_time_ =") = 1
         /\ calls[Len(calls)] = "last_time_ ="
         /\ Called(Self, "odom_pub_.publish") /\ Called(Self, "pose_pub_.publish")
         /\ Before("odom_pub_.publish", "last_time_ =")
         /\ Before("pose_pub_.publish", "last_time_ =")
         /\ Before("sendTransform", "last_time_ =")
         /\ publish_tf_ => Called(Self, "sendTransform")
    /\ (frame # NULL /\ ~Success) => ~Called(Self, "last_time_ =")
    /\ last_time_ = IF history.success = None THEN 0 ELSE history.success[1]

\* A successful frame stamped before the previous successful one: no
\* velocity, the transform broadcast, and last_time_ moved back to its stamp.
C17_Witness ==
    /\ Success /\ frame.before.success # None /\ frame.stamp > 0
    /\ frame.stamp < PreviousSuccess
    /\ ~Populated /\ Len(tf_broadcaster_) = 1
    /\ last_time_ = frame.stamp

\* The pose of an odometry or pose-only record as a transform.
PoseOf(msg) == Transform(BasisOfQuaternion(msg.pose.orientation), msg.pose.position)

\* The two nodes emitted the same odometry and pose-only records, and these
\* carry the pose the engine gave, unchanged.
SameRecords ==
    /\ odom_pub_ = twin.odom_pub_
    /\ pose_pub_ = twin.pose_pub_
    /\ last_time_ = twin.last_time_
    /\ Success =>
         /\ Len(odom_pub_) = 1 /\ Len(pose_pub_) = 1
         /\ PoseOf(odom_pub_[1]) = visual_odometer_.estimate.pose
         /\ PoseOf(pose_pub_[1]) = visual_odometer_.estimate.pose

\* The offset a node composed with in the callback that ran last.
OffsetOf(node) ==
    IF node.tf_listener_.available THEN node.tf_listener_.transform ELSE Identity

\* C18 as stated: two runs over the same events that differ only in what the
\* frame-offset source returns emit the same odometry and pose-only records,
\* which carry the engine's pose unchanged; and with an offset that is not
\* the identity the pose of the odometry record differs from the broadcast
\* transform.
C18_AsStated ==
    twin # NULL =>
        /\ SameRecords
        /\ \A node \in {Self, twin} :
             (Success /\ node.tf_broadcaster_ # <<>> /\ OffsetOf(node) # Identity) =>
                 PoseOf(node.odom_pub_[1]) # node.tf_broadcaster_[1].transform

\* C18: two runs over the same events that differ only in what the
\* frame-offset source returns emit the same odometry and pose-only records,
\* which carry the engine's pose P unchanged; the broadcast transform differs
\* from P exactly when the offset B does not commute with P (B * P # P * B),
\* so not when P is the identity.
C18_OffsetIndependent ==
    twin # NULL =>
        /\ SameRecords
        /\ \A node \in {Self, twin} :
             (Success /\ node.tf_broadcaster_ # <<>>) =>
                 LET P == PoseOf(node.odom_pub_[1])
                     B == OffsetOf(node)
                 IN  (P # node.tf_broadcaster_[1].transform)
                         <=> (Mul(B, P) # Mul(P, B))

\* One node resolved an offset that is not the identity, the other none:
\* the same odometry record, different transforms, and the first node's
\* transform is not the pose of its odometry record.
C18_Witness ==
    /\ twin # NULL /\ Success
    /\ tf_listener_.available /\ tf_listener_.transform # Identity
    /\ ~twin.tf_listener_.available
    /\ Len(tf_broadcaster_) = 1 /\ Len(twin.tf_broadcaster_) = 1
    /\ odom_pub_ = twin.odom_pub_
    /\ tf_broadcaster_ # twin.tf_broadcaster_
    /\ PoseOf(odom_pub_[1]) # tf_broadcaster_[1].transform
    /\ PoseOf(twin.odom_pub_[1]) = twin.tf_broadcaster_[1].transform

=============================================================================
